---- MODULE Spec2Model ----
(***************************************************************************)
(* State-machine model of the xunafay/p2p node:                            *)
(*   - the overlay orchestration actor (peer/src/swarm_dispatch.rs) with   *)
(*     its command inlet and event outlet (peer/src/main.rs),              *)
(*   - the sync protocol's Connection Handler and Coordinator              *)
(*     (protocols/automerge/src/handler.rs, behaviour.rs),                 *)
(*   - the wire codec (protocols/automerge/src/messages/messages.rs).      *)
(***************************************************************************)
EXTENDS Integers, Sequences, FiniteSets, TLC

VARIABLES
    \* ---- SwarmManager (swarm_dispatch.rs:31-39) and its channels ----
    actor,              \* "running" | "exited" (loop break) | "panicked" (unwrap)
    sent_identify,      \* SwarmManager.sent_identify
    received_identify,  \* SwarmManager.received_identify
    engine_calls,       \* history: the engine calls made while handling last_polled
    listen_log,         \* history: one record per swarm.listen_on(circuit_addr) call
    polled_n,           \* history: number of events taken from select_next_some()
    last_polled,        \* history: the event taken last
    published,          \* history: poll numbers of the events given to event_tx.send
    last_published,     \* history: the event given to event_tx.send last
    command_rx,         \* contents of the mpsc command channel (main.rs:179-180)
    senders,            \* number of live mpsc::Sender<SwarmCommand> handles
    producer,           \* the command a producer is awaiting send() on, or NoCmd
    sent_count,         \* history: number of send() calls started
    handled_cmds,       \* history: commands taken by the actor, in order
    last_cmd_res,       \* history: the Result the engine gave to the call of
                        \*   the command taken last ("-" before the first)
    providing,          \* kademlia provider records held by the engine
    \* ---- the broadcast event outlet (main.rs:177-178) and its subscribers ----
    bc_tail,            \* position the next sent value gets
    bc_buffer,          \* the ring: slot index -> position and value, for the
                        \*   slots written so far
    rx_next,            \* per subscriber: position of the next value to receive
    rx_stalled,         \* per subscriber: it has stopped calling recv()
    rx_got,             \* history, per subscriber: number of values received
    rx_lost,            \* history, per subscriber: total of the Lagged(n) reports
    rx_last,            \* history, per subscriber: the value received last
    rx_gapfree,         \* history, per subscriber: every value received followed
                        \*   directly the one received before it
    rx_over,            \* history, per subscriber: it has been more than the
                        \*   channel capacity behind the sender
    \* ---- sync protocol: Handlers (handler.rs:33-36), Behaviour (behaviour.rs:35-42) ----
    handlers,           \* connection -> the Handler the swarm holds for it
    stream_opened,      \* history, per connection: an inbound stream was negotiated
    h_submits,          \* history: number of on_behaviour_event calls
    h_taken,            \* history, per connection: commands poll took, in order
    h_wire,             \* history, per connection: commands written to the stream
    upgrade_failed,     \* history: connections whose stream negotiation failed
    queued_events,      \* Behaviour.queued_events
    active_syncs,       \* Behaviour.active_syncs
    pending_commands,   \* Behaviour.pending_commands
    start_issued,       \* history: (peer, doc) -> StartSync commands issued for it
    emitted,            \* history: what Behaviour::poll returned Ready with
    closed,             \* history: the connections the swarm has closed
    handler_events_n,   \* history: number of on_connection_handler_event calls
    last_handler_event, \* history: the Handler event given to the last call
    issued_n,           \* history: number of SendChanges, RequestSync and
                        \*   BroadcastChanges commands issued to the Coordinator
    last_issued,        \* history: the command issued last
    \* ---- wire codec (messages.rs): one encode/decode run ----
    console,            \* main's console loop: "reading", "exited", "panicked"
    is_db_provider,     \* main's local of that name
    lines_read,         \* history: lines taken from stdin
    last_line,          \* history: the last line taken from stdin
    db_pc,              \* DatabaseManager::run: "running" or "exited"
    db_command_rx,      \* number of DatabaseCommands queued in its inlet
    db_senders,         \* live Sender handles of its inlet
    db_sent,            \* history: DatabaseCommands sent so far
    db_last_recv,       \* history: what its last swarm_event_rx.recv() returned
    c_pc,               \* "idle" | "built" | "encoded" | "decoded"
    c_msg,              \* the Message given to the encoder
    c_inj,              \* the unrecognised field a newer peer adds, and where
    c_first,            \* a Message whose stream precedes c_msg's in c_ext
    c_bytes,            \* Message::write_message's output for c_msg
    c_ext,              \* the same stream with the unrecognised field in it
    c_out,              \* Message::from_reader's result on c_bytes
    c_ext_out           \* Message::from_reader's result on c_ext

eventVars == <<sent_identify, received_identify, engine_calls, listen_log, polled_n, last_polled,
               published, last_published>>

inletVars == <<command_rx, senders, producer, sent_count>>

commandVars == <<handled_cmds, last_cmd_res, providing>>

actorVars == <<actor, eventVars, inletVars, commandVars>>

ringVars == <<bc_tail, bc_buffer, rx_over>>

subscriberVars == <<rx_next, rx_stalled, rx_got, rx_lost, rx_last, rx_gapfree>>

outletVars == <<ringVars, subscriberVars>>

databaseVars == <<db_pc, db_command_rx, db_senders, db_sent, db_last_recv>>

consoleVars == <<console, is_db_provider, lines_read, last_line>>

handlerVars == <<handlers, stream_opened, h_submits, h_taken, h_wire, upgrade_failed>>

behaviourVars == <<queued_events, active_syncs, pending_commands, start_issued, emitted>>

coordVars == <<closed, handler_events_n, last_handler_event, issued_n, last_issued>>

syncVars == <<handlerVars, behaviourVars, coordVars>>

codecVars == <<c_pc, c_msg, c_inj, c_first, c_bytes, c_ext, c_out, c_ext_out>>

\* what the codec leaves alone
nonCodecVars == <<actorVars, outletVars, syncVars, consoleVars, databaseVars>>

\* what the actor and its channels leave alone
protocolVars == <<syncVars, codecVars, consoleVars, databaseVars>>

\* what the sync protocol leaves alone
nonSyncVars == <<actorVars, outletVars, codecVars, consoleVars, databaseVars>>

vars == <<actorVars, outletVars, syncVars, codecVars, consoleVars, databaseVars>>

-----------------------------------------------------------------------------
(* Bounds of the model *)

MaxEvents == 3      \* events the engine produces in one run of Spec
MaxCommands == 1    \* commands the producers send in one run of Spec
MaxSubmits == 2     \* on_behaviour_event calls in one run of SpecSync
ProviderMaxCommands == 3   \* commands the producer sends in one run of SpecProvider
MaxStartSyncs == 2  \* StartSync commands issued per (peer, doc) in SpecSync
MaxHandlerEvents == 2   \* on_connection_handler_event calls in one run of SpecCoordinator
MaxIssues == 2      \* commands other than StartSync issued in one run of SpecCoordinator
MaxIds == 2         \* longest AvailableDocuments.ids list given to the codec
LongLen == 128      \* length of the longest byte payload given to the codec
FanoutMaxEvents == 34   \* events the engine produces in one run of SpecFanout
InletMaxSends == 34     \* commands the producer sends in one run of SpecInlet

-----------------------------------------------------------------------------
(* Overlay events and commands *)

relay_peer_id == "relay"

Peers == {"relay", "other"}

\* Option<Limit> of the relay client events, and Limit::duration() inside it
Limits == {"none", "no_duration", "some"}

Ev(k, p, a) == [kind |-> k, peer |-> p, arg |-> a]

NoEvent == Ev("-", "-", "-")

\* SwarmEvent<BehaviourEvent>, one kind per match arm of handle_swarm_event
SwarmEvents ==
    {Ev("NewListenAddr", "-", "-"), Ev("OutgoingConnectionError", "-", "-"),
     Ev("Autonat", "-", "-"), Ev("Other", "-", "-")}
    \cup {Ev(k, p, "-") : k \in {"ConnectionClosed", "ConnectionEstablished",
                                 "IdentifySent", "IdentifyReceived"}, p \in Peers}
    \cup {Ev("KadQueryProgressed", "-", a) :
             a \in {"GetClosestPeersOk", "GetClosestPeersErr",
                    "BootstrapOk", "BootstrapErr", "OtherResult"}}
    \cup {Ev(k, "-", l) : k \in {"ReservationReqAccepted", "OutboundCircuitEstablished",
                                 "InboundCircuitEstablished"}, l \in Limits}
    \cup {Ev("Dcutr", "-", a) : a \in {"Ok", "Err"}}

Keys == {"db"}

Cmd(k, a) == [kind |-> k, arg |-> a]

\* a command inside the channel, numbered by the send() call that carries it
Queued(n, cmd) == [id |-> n, kind |-> cmd.kind, arg |-> cmd.arg]

NoCmd == Queued(0, Cmd("-", "-"))

\* enum SwarmCommand (swarm_dispatch.rs:20-29)
SwarmCommands ==
    {Cmd("Dial", "addr"), Cmd("DialPeerId", "other"), Cmd("FindProviders", "db"),
     Cmd("ListConnections", "-"), Cmd("PutTestValue", "k"), Cmd("GetTestValue", "k")}
    \cup {Cmd(k, key) : k \in {"BeginProviderRole", "StopProviderRole"}, key \in Keys}

Results == {"Ok", "Err"}

\* holders of a broadcast::Receiver of the event outlet
Subscribers == {"s1", "s2"}

-----------------------------------------------------------------------------
(* SwarmManager::new and the channels of main *)

InitActor ==
    /\ actor = "running"
    /\ sent_identify = FALSE
    /\ received_identify = FALSE
    /\ engine_calls = <<>>
    /\ listen_log = <<>>
    /\ polled_n = 0
    /\ last_polled = NoEvent
    /\ published = <<>>
    /\ last_published = NoEvent
    /\ command_rx = <<>>
    /\ senders = 2
    /\ producer = NoCmd
    /\ sent_count = 0
    /\ handled_cmds = <<>>
    /\ last_cmd_res = "-"
    /\ providing = {}

\* capacity of broadcast::channel::<Arc<SwarmEvent<BehaviourEvent>>>(32)
BroadcastCapacity == 32

\* the channel as created, every subscriber subscribed at position 0
InitOutlet ==
    /\ bc_tail = 0
    /\ bc_buffer = [i \in {} |-> [pos |-> 0, val |-> 0]]
    /\ rx_next = [r \in Subscribers |-> 0]
    /\ rx_stalled = [r \in Subscribers |-> FALSE]
    /\ rx_got = [r \in Subscribers |-> 0]
    /\ rx_lost = [r \in Subscribers |-> 0]
    /\ rx_last = [r \in Subscribers |-> 0]
    /\ rx_gapfree = [r \in Subscribers |-> TRUE]
    /\ rx_over = [r \in Subscribers |-> FALSE]

-----------------------------------------------------------------------------
(* SwarmManager::handle_swarm_event (swarm_dispatch.rs:153-316) *)

\* variant of the line 229 guard that forgets `&& self.sent_identify`
CircuitListenGuard_NoSentCheck(peer_id, sent) ==
    peer_id = relay_peer_id

\* line 229: `peer_id == &self.relay_peer_id && self.sent_identify`
CircuitListenGuard(peer_id, sent) ==
    peer_id = relay_peer_id /\ sent

\* the relay client arms: `limit.unwrap()` then `limit.duration().unwrap()`
RelayLimitKinds ==
    {"ReservationReqAccepted", "OutboundCircuitEstablished", "InboundCircuitEstablished"}

\* TRUE when handling e unwinds out of the handler: an unwrap on None (lines
\* 280-281, 292-293, 299-300) or on the Err of swarm.listen_on (line 236)
HandlerPanics(e, listen_res) ==
    \/ e.kind \in RelayLimitKinds /\ e.arg # "some"
    \/ /\ e.kind = "IdentifyReceived"
       /\ CircuitListenGuard(e.peer, sent_identify)
       /\ listen_res = "Err"

\* the Results swarm.listen_on can give while e is handled: the call is made
\* only in the IdentifyReceived arm, under the guard of line 229
ListenResults(e) ==
    IF e.kind = "IdentifyReceived" /\ CircuitListenGuard(e.peer, sent_identify)
    THEN Results
    ELSE {"Ok"}

\* variant in which the bootstrap is started for whatever peer connects
BootstrapGuard_AnyPeer(peer_id) == TRUE

\* line 186: `&self.relay_peer_id == peer_id`
BootstrapGuard(peer_id) == peer_id = relay_peer_id

\* the Results kademlia.bootstrap() can give while e is handled: the call is
\* made only in the ConnectionEstablished arm, under the guard of line 186
BootstrapResults(e) ==
    IF e.kind = "ConnectionEstablished" /\ BootstrapGuard(e.peer)
    THEN Results
    ELSE {"Ok"}

Call(name, res) == [call |-> name, result |-> res]

\* variant in which the closest peers a query found are dialed
EngineCalls_DialClosestPeers(e, listen_res, boot_res) ==
    CASE e.kind = "ConnectionEstablished" /\ BootstrapGuard(e.peer) ->
            <<Call("kademlia.bootstrap", boot_res)>>
      [] e.kind = "IdentifyReceived" /\ CircuitListenGuard(e.peer, sent_identify) ->
            <<Call("listen_on", listen_res)>>
      [] e.kind = "KadQueryProgressed" /\ e.arg = "GetClosestPeersOk" ->
            <<Call("dial", "Ok")>>
      [] OTHER -> <<>>

\* the calls handle_swarm_event makes on self.swarm for e, in order: the
\* bootstrap of lines 186-196, the listen_on of lines 229-237; every other arm
\* only logs
EngineCalls(e, listen_res, boot_res) ==
    CASE e.kind = "ConnectionEstablished" /\ BootstrapGuard(e.peer) ->
            <<Call("kademlia.bootstrap", boot_res)>>
      [] e.kind = "IdentifyReceived" /\ CircuitListenGuard(e.peer, sent_identify) ->
            <<Call("listen_on", listen_res)>>
      [] OTHER -> <<>>

\* variant in which the relay's ConnectionClosed resets the bootstrap booleans
HandleSwarmEvent_ResetOnRelayClose(e, listen_res, boot_res) ==
    LET relay_closed == e.kind = "ConnectionClosed" /\ e.peer = relay_peer_id IN
    /\ sent_identify' = IF e.kind = "IdentifySent" THEN TRUE
                         ELSE IF relay_closed THEN FALSE ELSE sent_identify
    /\ received_identify' = IF e.kind = "IdentifyReceived" THEN TRUE
                             ELSE IF relay_closed THEN FALSE ELSE received_identify
    /\ engine_calls' = EngineCalls(e, listen_res, boot_res)
    /\ listen_log' =
           IF e.kind = "IdentifyReceived" /\ CircuitListenGuard(e.peer, sent_identify)
           THEN Append(listen_log, [sent |-> sent_identify,
                                    received |-> received_identify',
                                    result |-> listen_res])
           ELSE listen_log

\* the fields and engine calls of one handle_swarm_event(&event) call;
\* listen_res and boot_res are the Results the engine gives to swarm.listen_on
\* and to kademlia.bootstrap
HandleSwarmEvent(e, listen_res, boot_res) ==
    /\ sent_identify' = IF e.kind = "IdentifySent" THEN TRUE ELSE sent_identify
    /\ received_identify' =
           IF e.kind = "IdentifyReceived" THEN TRUE ELSE received_identify
    /\ engine_calls' = EngineCalls(e, listen_res, boot_res)
    /\ listen_log' =
           IF e.kind = "IdentifyReceived" /\ CircuitListenGuard(e.peer, sent_identify)
           THEN Append(listen_log, [sent |-> sent_identify,
                                    received |-> received_identify',
                                    result |-> listen_res])
           ELSE listen_log

-----------------------------------------------------------------------------
(* SwarmManager::run (swarm_dispatch.rs:60-151) *)

\* capacity of mpsc::channel::<SwarmCommand>(32)
ChannelCapacity == 32

\* variant in which the send waits, like a bounded queue, until the slowest
\* subscriber has left room
BroadcastSendReady_Blocking ==
    \A r \in Subscribers : bc_tail - rx_next[r] < BroadcastCapacity

\* `let _ = self.event_tx.send(..)` (line 66) is a synchronous call: it never
\* waits for a receiver
BroadcastSendReady == TRUE

\* broadcast::Sender::send: the value takes the slot of position bc_tail,
\* overwriting the value sent BroadcastCapacity positions earlier
BroadcastSend(v) ==
    /\ bc_buffer' = [i \in DOMAIN bc_buffer \cup {bc_tail % BroadcastCapacity} |->
                        IF i = bc_tail % BroadcastCapacity
                        THEN [pos |-> bc_tail, val |-> v]
                        ELSE bc_buffer[i]]
    /\ bc_tail' = bc_tail + 1
    /\ rx_over' = [r \in Subscribers |->
                      rx_over[r] \/ (bc_tail' - rx_next[r] > BroadcastCapacity)]

\* select! branch `event = self.swarm.select_next_some()` (lines 64-67) for an
\* engine that yields at most max events drawn from events: handle the event,
\* then publish it; a panic in the handler unwinds the task before
\* event_tx.send is reached
EventBranchOf(max, events) ==
    /\ actor = "running"
    /\ polled_n < max
    /\ BroadcastSendReady
    /\ \E e \in events, listen_res \in Results, boot_res \in Results :
          /\ listen_res \in ListenResults(e)
          /\ boot_res \in BootstrapResults(e)
          /\ polled_n' = polled_n + 1
          /\ last_polled' = e
          /\ HandleSwarmEvent(e, listen_res, boot_res)
          /\ IF HandlerPanics(e, listen_res)
             THEN /\ actor' = "panicked"
                  /\ UNCHANGED <<published, last_published, ringVars>>
             ELSE /\ actor' = actor
                  /\ published' = Append(published, polled_n')
                  /\ last_published' = e
                  /\ BroadcastSend(polled_n')
    /\ UNCHANGED <<inletVars, commandVars, subscriberVars, protocolVars>>

EventBranch == EventBranchOf(MaxEvents, SwarmEvents)

\* variant in which stop_providing leaves the provider record in the store
HandleCommand_StopKeepsRecord(cmd, res) ==
    providing' =
        CASE cmd.kind = "BeginProviderRole" /\ res = "Ok" -> providing \cup {cmd.arg}
          [] OTHER -> providing

\* the engine calls of one `match command` (lines 70-142); res is the Result
\* of the engine call the command maps to
HandleCommand(cmd, res) ==
    providing' =
        CASE cmd.kind = "BeginProviderRole" /\ res = "Ok" -> providing \cup {cmd.arg}
          [] cmd.kind = "StopProviderRole" -> providing \ {cmd.arg}
          [] OTHER -> providing

\* the Results the engine call of cmd can give: swarm.dial (lines 73, 116),
\* kademlia.start_providing (line 84), doc.put inside modify_document (line
\* 128) and doc.get (line 133) return a Result; stop_providing,
\* get_providers and connected_peers cannot fail.  The provider store refuses
\* a record only for a key it does not hold yet.
CommandResults(cmd) ==
    CASE cmd.kind \in {"Dial", "DialPeerId", "PutTestValue", "GetTestValue"} -> Results
      [] cmd.kind = "BeginProviderRole" /\ cmd.arg \notin providing -> Results
      [] OTHER -> {"Ok"}

\* TRUE when handling cmd unwinds out of the loop: `doc.put(..).unwrap()`
\* (line 128) on an Err; every other Err is matched and logged
CommandPanics(cmd, res) ==
    cmd.kind = "PutTestValue" /\ res = "Err"

\* select! branch `command = self.command_rx.recv()` yielding Some(command)
CommandBranch ==
    /\ actor = "running"
    /\ command_rx # <<>>
    /\ \E res \in CommandResults(Head(command_rx)) :
          /\ HandleCommand(Head(command_rx), res)
          /\ last_cmd_res' = res
          /\ actor' = IF CommandPanics(Head(command_rx), res) THEN "panicked" ELSE actor
    /\ handled_cmds' = Append(handled_cmds, Head(command_rx))
    /\ command_rx' = Tail(command_rx)
    /\ UNCHANGED <<eventVars, senders, producer, sent_count, outletVars, protocolVars>>

\* recv() yields None only when the channel is empty and every Sender is
\* dropped: `break` (lines 143-147)
CommandChannelClosed ==
    /\ actor = "running"
    /\ command_rx = <<>>
    /\ senders = 0
    /\ actor' = "exited"
    /\ UNCHANGED <<eventVars, inletVars, commandVars, outletVars, protocolVars>>

\* a producer reaches `swarm_command_tx.send(cmd).await` (main.rs:213-262)
\* with one of cmds, at most max times
ProducerStartOf(max, cmds) ==
    /\ senders > 0
    /\ producer = NoCmd
    /\ sent_count < max
    /\ \E cmd \in cmds : producer' = Queued(sent_count + 1, cmd)
    /\ sent_count' = sent_count + 1
    /\ UNCHANGED <<actor, eventVars, command_rx, senders, commandVars, outletVars, protocolVars>>

ProducerStart == ProducerStartOf(MaxCommands, SwarmCommands)

\* variant in which a send into a full channel completes at once and pushes
\* the oldest queued command out
InletSend_DropOldest ==
    /\ producer # NoCmd
    /\ actor = "running"
    /\ command_rx' = IF Len(command_rx) < ChannelCapacity
                     THEN Append(command_rx, producer)
                     ELSE Append(Tail(command_rx), producer)
    /\ producer' = NoCmd
    /\ UNCHANGED <<actor, eventVars, senders, sent_count, commandVars, outletVars, protocolVars>>

\* the awaited send completes: the channel has room (a permit is free) and
\* the value is queued at the back
InletSend ==
    /\ producer # NoCmd
    /\ actor = "running"
    /\ Len(command_rx) < ChannelCapacity
    /\ command_rx' = Append(command_rx, producer)
    /\ producer' = NoCmd
    /\ UNCHANGED <<actor, eventVars, senders, sent_count, commandVars, outletVars, protocolVars>>

\* a Sender handle goes out of scope (main returns, DatabaseManager dropped);
\* the last one cannot be dropped by a producer that is inside send().await
DropSender ==
    /\ senders > 0
    /\ producer = NoCmd \/ senders > 1
    /\ senders' = senders - 1
    /\ UNCHANGED <<actor, eventVars, command_rx, producer, sent_count, commandVars, outletVars, protocolVars>>

-----------------------------------------------------------------------------
(* The operator console: the loop of main (main.rs:203-273) *)

MaxLines == 3

\* the words of the console's commands, as sequences of characters; peer is
\* the text of a peer identity, garbage a text that is none
W ==
    [sp |-> <<" ">>,
     q |-> <<"q">>,
     exit |-> <<"e", "x", "i", "t">>,
     quit |-> <<"q", "u", "i", "t">>,
     promote |-> <<"p", "r", "o", "m", "o", "t", "e">>,
     demote |-> <<"d", "e", "m", "o", "t", "e">>,
     db |-> <<"d", "b">>,
     get |-> <<"g", "e", "t">>,
     providers |-> <<"p", "r", "o", "v", "i", "d", "e", "r", "s">>,
     dial |-> <<"d", "i", "a", "l">>,
     dial_id |-> <<"d", "i", "a", "l", "_", "i", "d">>,
     connections |-> <<"c", "o", "n", "n", "e", "c", "t", "i", "o", "n", "s">>,
     put |-> <<"p", "u", "t">>,
     peer |-> <<"A">>,
     garbage |-> <<"x">>]

\* the lines an operator types
Lines ==
    { W.q, W.exit \o W.sp,
      W.promote \o W.sp \o W.db, W.demote \o W.sp \o W.db,
      W.get \o W.sp \o W.providers \o W.sp \o W.db,
      W.dial \o W.sp \o W.peer, W.dial \o W.sp \o W.garbage, W.dial,
      W.dial_id \o W.sp \o W.peer,
      W.connections,
      W.put \o W.sp \o W.db }

\* str::starts_with
StartsWith(line, prefix) ==
    /\ Len(line) >= Len(prefix)
    /\ SubSeq(line, 1, Len(prefix)) = prefix

\* str::trim, for the one whitespace character of Lines
RECURSIVE Trim(_)
Trim(line) ==
    IF line = <<>> THEN line
    ELSE IF Head(line) = " " THEN Trim(Tail(line))
    ELSE IF line[Len(line)] = " " THEN Trim(SubSeq(line, 1, Len(line) - 1))
    ELSE line

\* str::splitn(n, ' '): at most n parts, the last one holding the rest
RECURSIVE SplitN(_, _)
SplitN(line, n) ==
    LET at == {i \in 1..Len(line) : line[i] = " "} IN
    IF n = 1 \/ at = {} THEN <<line>>
    ELSE LET i == CHOOSE i \in at : \A j \in at : i <= j IN
         <<SubSeq(line, 1, i - 1)>> \o SplitN(SubSeq(line, i + 1, Len(line)), n - 1)

\* PeerId::from_str
PeerIdFromStr(text) == IF text = W.peer THEN [ok |-> TRUE, val |-> "A"] ELSE [ok |-> FALSE, val |-> "-"]

\* relay.address / p2p(relay.peer_id) / p2p-circuit / p2p(peer) (lines 241-245)
CircuitAddr(peer) == IF peer = "A" THEN "relay/p2p-circuit/p2p/A" ELSE "-"

\* kad::RecordKey::new(key_str.as_bytes())
RecordKey(text) == IF text = W.db THEN "db" ELSE "-"

Outcome(a, cmd, provider) == [act |-> a, cmd |-> cmd, provider |-> provider]

\* variant in which `promote db` sends its command whatever is_db_provider
PromoteGuard_Ungated(provider) == TRUE

\* line 211: `if !is_db_provider`
PromoteGuard(provider) == ~provider

\* line 219: `if is_db_provider`
DemoteGuard(provider) == provider

\* the body of the `Ok(Some(line))` branch (lines 205-266): what it does with
\* line when is_db_provider = provider; the arms are tried in the order of the
\* if / else-if chain
ConsoleDispatch(raw, provider) ==
    LET line == Trim(raw) IN
    IF line = W.exit \/ line = W.quit \/ line = W.q
    THEN Outcome("break", Cmd("-", "-"), provider)
    ELSE IF line = W.promote \o W.sp \o W.db
    THEN IF PromoteGuard(provider)
         THEN Outcome("send", Cmd("BeginProviderRole", "db"), TRUE)
         ELSE Outcome("log", Cmd("-", "-"), provider)
    ELSE IF line = W.demote \o W.sp \o W.db
    THEN IF DemoteGuard(provider)
         THEN Outcome("send", Cmd("StopProviderRole", "db"), FALSE)
         ELSE Outcome("log", Cmd("-", "-"), provider)
    ELSE IF StartsWith(line, W.get \o W.sp \o W.providers \o W.sp)
    THEN LET parts == SplitN(line, 3) IN
         IF Len(parts) = 3
         THEN Outcome("send", Cmd("FindProviders", RecordKey(parts[3])), provider)
         ELSE Outcome("log", Cmd("-", "-"), provider)
    ELSE IF StartsWith(line, W.dial)
    THEN LET parts == SplitN(line, 2) IN
         IF Len(parts) # 2 THEN Outcome("log", Cmd("-", "-"), provider)
         ELSE LET id == PeerIdFromStr(parts[2]) IN
              IF ~id.ok THEN Outcome("panic", Cmd("-", "-"), provider)
              ELSE Outcome("send", Cmd("Dial", CircuitAddr(id.val)), provider)
    ELSE IF StartsWith(line, W.dial_id)
    THEN LET parts == SplitN(line, 2) IN
         IF Len(parts) # 2 THEN Outcome("log", Cmd("-", "-"), provider)
         ELSE LET id == PeerIdFromStr(parts[2]) IN
              IF ~id.ok THEN Outcome("panic", Cmd("-", "-"), provider)
              ELSE Outcome("send", Cmd("DialPeerId", id.val), provider)
    ELSE IF StartsWith(line, W.connections)
    THEN Outcome("send", Cmd("ListConnections", "-"), provider)
    ELSE Outcome("log", Cmd("-", "-"), provider)

InitConsole ==
    /\ console = "reading"
    /\ is_db_provider = FALSE
    /\ lines_read = 0
    /\ last_line = <<>>

\* select! branch `Ok(Some(line)) = stdin.next_line()`: the line is
\* dispatched; a command is handed to `swarm_command_tx.send(..).await`;
\* `break` and a panic end main, which drops every Sender
ConsoleLine ==
    /\ console = "reading"
    /\ producer = NoCmd
    /\ senders > 0
    /\ lines_read < MaxLines
    /\ \E line \in Lines :
          LET r == ConsoleDispatch(line, is_db_provider) IN
          /\ last_line' = line
          /\ is_db_provider' = r.provider
          /\ console' = CASE r.act = "break" -> "exited"
                          [] r.act = "panic" -> "panicked"
                          [] OTHER -> console
          /\ senders' = IF r.act \in {"break", "panic"} THEN 0 ELSE senders
          /\ producer' = IF r.act = "send" THEN Queued(sent_count + 1, r.cmd) ELSE producer
          /\ sent_count' = IF r.act = "send" THEN sent_count + 1 ELSE sent_count
    /\ lines_read' = lines_read + 1
    /\ UNCHANGED <<actor, eventVars, command_rx, commandVars, outletVars, syncVars, codecVars,
                   databaseVars>>

\* select! branch `_ = &mut ctrl_c_signal` (lines 267-271): break
ConsoleCtrlC ==
    /\ console = "reading"
    /\ producer = NoCmd
    /\ console' = "exited"
    /\ senders' = 0
    /\ UNCHANGED <<actor, eventVars, command_rx, producer, sent_count, commandVars,
                   is_db_provider, lines_read, last_line, outletVars, syncVars, codecVars,
                   databaseVars>>

-----------------------------------------------------------------------------
(* Subscribers of the event outlet: broadcast::Receiver::recv *)

\* broadcast::Receiver::recv of subscriber r with rx_next[r] < bc_tail: the
\* value at its position, or a lag report if that slot was overwritten
BroadcastRecv(r) ==
    LET slot == bc_buffer[rx_next[r] % BroadcastCapacity] IN
    IF slot.pos = rx_next[r]
    THEN \* Ok(value)
         /\ rx_next' = [rx_next EXCEPT ![r] = @ + 1]
         /\ rx_got' = [rx_got EXCEPT ![r] = @ + 1]
         /\ rx_last' = [rx_last EXCEPT ![r] = slot.val]
         /\ rx_gapfree' = [rx_gapfree EXCEPT ![r] = @ /\ slot.val = rx_last[r] + 1]
         /\ UNCHANGED rx_lost
    ELSE \* Err(Lagged(missed)): the slot was overwritten; skip to the oldest
         \* value still in the ring
         /\ rx_lost' = [rx_lost EXCEPT ![r] = @ + (bc_tail - BroadcastCapacity) - rx_next[r]]
         /\ rx_next' = [rx_next EXCEPT ![r] = bc_tail - BroadcastCapacity]
         /\ UNCHANGED <<rx_got, rx_last, rx_gapfree>>

\* recv() of subscriber r with a value or a lag report ready; with rx_next[r]
\* = bc_tail the call stays pending
SubscriberRecv(r) ==
    /\ ~rx_stalled[r]
    /\ rx_next[r] < bc_tail
    /\ BroadcastRecv(r)
    /\ UNCHANGED <<actorVars, ringVars, rx_stalled, protocolVars>>

\* subscriber r stops consuming (its task is never polled again)
SubscriberStall(r) ==
    /\ ~rx_stalled[r]
    /\ rx_stalled' = [rx_stalled EXCEPT ![r] = TRUE]
    /\ UNCHANGED <<actorVars, ringVars, rx_next, rx_got, rx_lost, rx_last, rx_gapfree,
                   protocolVars>>

-----------------------------------------------------------------------------
(* DatabaseManager::run (database_manager.rs:45-66) *)

DbMaxEvents == 34

DbMaxCommands == 2

\* capacity of mpsc::channel::<DatabaseCommand>(32) (main.rs:183-184)
DbChannelCapacity == 32

\* the Subscriber that is the DatabaseManager's swarm_event_rx
DbReceiver == "s1"

InitDatabase ==
    /\ db_pc = "running"
    /\ db_command_rx = 0
    /\ db_senders = 1
    /\ db_sent = 0
    /\ db_last_recv = "-"

\* what swarm_event_rx.recv() returns: the value or the lag report of
\* BroadcastRecv, or Err(Closed) once nothing is left to read and the actor's
\* event_tx is dropped
RecvResult ==
    IF rx_next[DbReceiver] < bc_tail
    THEN IF bc_buffer[rx_next[DbReceiver] % BroadcastCapacity].pos = rx_next[DbReceiver]
         THEN "Ok" ELSE "Lagged"
    ELSE "Closed"

\* variant in which a receive error ends the loop
AfterRecv_BreakOnErr(res) == IF res = "Ok" THEN "running" ELSE "exited"

\* `if let Ok(event) = event { self.handle_swarm_event(event); }` (lines
\* 59-61) has no else: the loop goes on after every result
AfterRecv(res) == "running"

\* select! branch `event = self.swarm_event_rx.recv()` (lines 58-62);
\* handle_swarm_event has an empty body (line 77)
DbEventBranch ==
    /\ db_pc = "running"
    /\ rx_next[DbReceiver] < bc_tail \/ actor # "running"
    /\ db_last_recv' = RecvResult
    /\ IF rx_next[DbReceiver] < bc_tail
       THEN BroadcastRecv(DbReceiver)
       ELSE UNCHANGED <<rx_next, rx_got, rx_lost, rx_last, rx_gapfree>>
    /\ db_pc' = AfterRecv(RecvResult)
    /\ UNCHANGED <<actorVars, ringVars, rx_stalled, db_command_rx, db_senders, db_sent,
                   syncVars, codecVars, consoleVars>>

\* select! branch `command = self.command_rx.recv()` yielding Some(command)
\* (lines 50-52): handle_command logs it (lines 68-74)
DbCommandBranch ==
    /\ db_pc = "running"
    /\ db_command_rx > 0
    /\ db_command_rx' = db_command_rx - 1
    /\ UNCHANGED <<actorVars, outletVars, db_pc, db_senders, db_sent, db_last_recv,
                   syncVars, codecVars, consoleVars>>

\* the same branch yielding None, the inlet being empty with every Sender
\* dropped: `break` (lines 53-56)
DbCommandChannelClosed ==
    /\ db_pc = "running"
    /\ db_command_rx = 0
    /\ db_senders = 0
    /\ db_pc' = "exited"
    /\ UNCHANGED <<actorVars, outletVars, db_command_rx, db_senders, db_sent, db_last_recv,
                   syncVars, codecVars, consoleVars>>

\* a holder of db_command_tx sends a DatabaseCommand
DbSend ==
    /\ db_senders > 0
    /\ db_sent < DbMaxCommands
    /\ db_command_rx < DbChannelCapacity
    /\ db_command_rx' = db_command_rx + 1
    /\ db_sent' = db_sent + 1
    /\ UNCHANGED <<actorVars, outletVars, db_pc, db_senders, db_last_recv,
                   syncVars, codecVars, consoleVars>>

\* db_command_tx goes out of scope
DbDropSender ==
    /\ db_senders > 0
    /\ db_senders' = db_senders - 1
    /\ UNCHANGED <<actorVars, outletVars, db_pc, db_command_rx, db_sent, db_last_recv,
                   syncVars, codecVars, consoleVars>>

-----------------------------------------------------------------------------
(* Sync protocol: Connection Handler (handler.rs) *)

Conns == {"c1", "c2"}

SyncPeers == {"A", "B"}

Docs == {"notes"}

SyncCmd(k, p, d) == [kind |-> k, peer |-> p, doc |-> d]

\* enum Command (handler.rs:12-31), one value of each variant; BroadcastChanges
\* carries no peer
Commands ==
    {SyncCmd(k, "B", d) : k \in {"StartSync", "SendChanges", "RequestSync"}, d \in Docs}
    \cup {SyncCmd("BroadcastChanges", "-", d) : d \in Docs}

NoSyncCmd == SyncCmd("-", "-", "-")

\* the peer at the other end of a connection
ConnPeer(c) == IF c = "c1" THEN "A" ELSE "B"

\* enum Event (behaviour.rs:14-33); SyncError carries its error as a String
SyncEvent(k, p, d, e) == [kind |-> k, peer |-> p, doc |-> d, error |-> e]

NoSyncEvent == SyncEvent("-", "-", "-", "-")

\* the events a Handler can hand to the Coordinator for its connection
HandlerEvents(c) ==
    {SyncEvent("SyncError", ConnPeer(c), d, "DOCUMENT_NOT_FOUND") : d \in Docs}
    \cup {SyncEvent("DocumentSynced", ConnPeer(c), d, "-") : d \in Docs}
    \cup {SyncEvent("SyncMessage", ConnPeer(c), d, "-") : d \in Docs}

\* ToSwarm<Event, Either<Command, Infallible>>, the element type of
\* queued_events: GenerateEvent(event) and NotifyHandler{peer_id, event: cmd}
GenerateEvent(ev) == [to |-> "GenerateEvent", peer |-> "-", item |-> ev]

NotifyHandler(p, cmd) ==
    [to |-> "NotifyHandler", peer |-> p,
     item |-> SyncEvent(cmd.kind, cmd.peer, cmd.doc, "-")]

\* a command inside a Handler, numbered by the on_behaviour_event call
Submitted(n, cmd) == [id |-> n, kind |-> cmd.kind, peer |-> cmd.peer, doc |-> cmd.doc]

\* variant in which a new Handler starts with a command in its queue
NewHandler_StaleCommand ==
    [pending_commands |-> <<Submitted(0, CHOOSE cmd \in Commands : TRUE)>>,
     pending_events |-> <<>>]

\* Handler::new (lines 39-44)
NewHandler == [pending_commands |-> <<>>, pending_events |-> <<>>]

\* Behaviour::new (behaviour.rs:45-51), and no connection yet
InitSync ==
    /\ handlers = [c \in {} |-> NewHandler]
    /\ stream_opened = [c \in Conns |-> FALSE]
    /\ h_submits = 0
    /\ h_taken = [c \in Conns |-> <<>>]
    /\ h_wire = [c \in Conns |-> <<>>]
    /\ upgrade_failed = {}
    /\ queued_events = <<>>
    /\ active_syncs = <<>>
    /\ pending_commands = [k \in {} |-> <<>>]
    /\ start_issued = [k \in SyncPeers \X Docs |-> 0]
    /\ emitted = <<>>
    /\ closed = {}
    /\ handler_events_n = 0
    /\ last_handler_event = NoSyncEvent
    /\ issued_n = 0
    /\ last_issued = NoSyncCmd

\* Vec::pop: the element taken is the last one
VecPopped(v) == v[Len(v)]

VecAfterPop(v) == SubSeq(v, 1, Len(v) - 1)

\* Handler::on_behaviour_event (lines 88-90): Vec::push
HandlerOnBehaviourEvent(c) ==
    /\ c \in DOMAIN handlers
    /\ h_submits < MaxSubmits
    /\ \E cmd \in Commands :
          handlers' = [handlers EXCEPT ![c].pending_commands =
                                          Append(@, Submitted(h_submits + 1, cmd))]
    /\ h_submits' = h_submits + 1
    /\ UNCHANGED <<stream_opened, h_taken, h_wire, upgrade_failed, behaviourVars, coordVars, nonSyncVars>>

\* what Handler::poll returns for a Handler in state h: Ready with the popped
\* event (lines 76-78), else, a command popped or not, Poll::Pending (line 85)
PollReturns(h) == IF h.pending_events # <<>> THEN "Ready" ELSE "Pending"

\* Handler::poll (lines 66-86): an event, if any, is popped and returned
\* Ready (the swarm hands it to Behaviour::on_connection_handler_event, which
\* only logs it); else one command, if any, is popped, logged as unhandled and
\* dropped; nothing is written to a stream
HandlerPoll(c) ==
    /\ c \in DOMAIN handlers
    /\ LET h == handlers[c] IN
       IF h.pending_events # <<>>
       THEN /\ handlers' = [handlers EXCEPT ![c].pending_events = VecAfterPop(@)]
            /\ UNCHANGED h_taken
       ELSE IF h.pending_commands # <<>>
       THEN /\ handlers' = [handlers EXCEPT ![c].pending_commands = VecAfterPop(@)]
            /\ h_taken' = [h_taken EXCEPT ![c] = Append(@, VecPopped(h.pending_commands))]
       ELSE UNCHANGED <<handlers, h_taken>>
    /\ UNCHANGED <<stream_opened, h_submits, h_wire, upgrade_failed, behaviourVars, coordVars, nonSyncVars>>

\* Handler::on_connection_event (lines 92-102) with FullyNegotiatedInbound:
\* the event, and the stream in it, is logged and dropped
HandlerOnConnectionEvent(c) ==
    /\ c \in DOMAIN handlers
    /\ ~stream_opened[c]
    /\ stream_opened' = [stream_opened EXCEPT ![c] = TRUE]
    /\ UNCHANGED <<handlers, h_submits, h_taken, h_wire, upgrade_failed, behaviourVars, coordVars, nonSyncVars>>

\* Handler::on_connection_event (lines 92-102) with ListenUpgradeError or
\* DialUpgradeError, the negotiation of the sync protocol having failed: the
\* event is logged and dropped, no field of the Handler is touched
HandlerOnUpgradeError(c) ==
    /\ c \in DOMAIN handlers
    /\ ~stream_opened[c]
    /\ c \notin upgrade_failed
    /\ upgrade_failed' = upgrade_failed \cup {c}
    /\ UNCHANGED <<handlers, stream_opened, h_submits, h_taken, h_wire,
                   behaviourVars, coordVars, nonSyncVars>>

-----------------------------------------------------------------------------
(* Sync protocol: Coordinator (behaviour.rs) *)

\* Behaviour::handle_established_inbound_connection / _outbound_connection
\* (lines 59-80): Ok(Either::Left(Handler::new())), no field touched
HandleEstablishedConnection(c) ==
    /\ c \notin DOMAIN handlers
    /\ c \notin closed        \* a ConnectionId is never used again
    /\ handlers' = [k \in DOMAIN handlers \cup {c} |->
                       IF k = c THEN NewHandler ELSE handlers[k]]
    /\ UNCHANGED <<stream_opened, h_submits, h_taken, h_wire, upgrade_failed, behaviourVars, coordVars, nonSyncVars>>

\* the application issues StartSync{peer, doc} to the Coordinator: Behaviour
\* has no method that takes a Command, and nothing pushes to active_syncs,
\* pending_commands or queued_events (lines 35-112)
StartSync(p, d) ==
    /\ start_issued[<<p, d>>] < MaxStartSyncs
    /\ start_issued' = [start_issued EXCEPT ![<<p, d>>] = @ + 1]
    /\ UNCHANGED <<queued_events, active_syncs, pending_commands, emitted,
                   handlerVars, coordVars, nonSyncVars>>

\* Behaviour::on_swarm_event (line 82) with ConnectionClosed: the body is
\* empty, no field is touched; the swarm drops the connection's Handler
OnSwarmEventConnectionClosed(c) ==
    /\ c \in DOMAIN handlers
    /\ handlers' = [k \in DOMAIN handlers \ {c} |-> handlers[k]]
    /\ closed' = closed \cup {c}
    /\ UNCHANGED <<stream_opened, h_submits, h_taken, h_wire, upgrade_failed, behaviourVars,
                   handler_events_n, last_handler_event, issued_n, last_issued,
                   nonSyncVars>>

\* Behaviour::on_connection_handler_event (lines 84-99): the event is logged
\* ("Unhandled handler event"), no field is touched
OnConnectionHandlerEvent(c) ==
    /\ c \in DOMAIN handlers
    /\ handler_events_n < MaxHandlerEvents
    /\ handler_events_n' = handler_events_n + 1
    /\ \E ev \in HandlerEvents(c) : last_handler_event' = ev
    /\ UNCHANGED <<handlerVars, behaviourVars, closed, issued_n, last_issued, nonSyncVars>>

\* the application issues SendChanges, RequestSync or BroadcastChanges to the
\* Coordinator: as for StartSync, Behaviour has no method that takes it
IssueCommand ==
    /\ issued_n < MaxIssues
    /\ issued_n' = issued_n + 1
    /\ \E cmd \in {x \in Commands : x.kind # "StartSync"} : last_issued' = cmd
    /\ UNCHANGED <<handlerVars, behaviourVars, closed, handler_events_n,
                   last_handler_event, nonSyncVars>>

\* Behaviour::poll (lines 101-112): pop_front of queued_events, else Pending
BehaviourPoll ==
    /\ IF queued_events # <<>>
       THEN /\ emitted' = Append(emitted, Head(queued_events))
            /\ queued_events' = Tail(queued_events)
       ELSE UNCHANGED <<queued_events, emitted>>
    /\ UNCHANGED <<active_syncs, pending_commands, start_issued, handlerVars, coordVars, nonSyncVars>>


-----------------------------------------------------------------------------
(* The wire codec (messages.rs).  Byte streams are sequences of 0..255;     *)
(* strings are their UTF-8 bytes.  Every message body is a record with the  *)
(* fields of all six message types, the ones a type lacks left empty, so    *)
(* that two bodies can always be compared.  Option<T> is a sequence of      *)
(* length 0 or 1.                                                           *)

Body(id, payload, reason, ids) ==
    [id |-> id, payload |-> payload, reason |-> reason, ids |-> ids]

DefaultBody == Body(<<>>, <<>>, <<>>, <<>>)

\* mod_SyncErrorReason::Reason and its discriminants
ReasonNames == <<"UNKNOWN", "INVALID_MESSAGE", "DOCUMENT_NOT_FOUND", "INTERNAL_ERROR">>

ReasonAsI32(r) == (CHOOSE i \in 1..Len(ReasonNames) : ReasonNames[i] = r) - 1

\* impl From<i32> for Reason
ReasonFromI32(i) == IF i \in 0..3 THEN ReasonNames[i + 1] ELSE "UNKNOWN"

SyncErrorReason(reason, details) == [reason |-> reason, details |-> details]

DefaultSyncErrorReason == SyncErrorReason("UNKNOWN", <<>>)

\* mod_Message::OneOfmsg: the variants, their envelope tags and body types
Variants ==
    <<"sync_message", "sync_error", "available_documents",
      "request_available_documents", "request_document", "document">>

VariantTag(v) == 8 * (CHOOSE i \in 1..Len(Variants) : Variants[i] = v) + 2

VariantType(v) ==
    CASE v = "sync_message" -> "DocumentSyncMessage"
      [] v = "sync_error" -> "DocumentSyncError"
      [] v = "available_documents" -> "AvailableDocuments"
      [] v = "request_available_documents" -> "RequestAvailableDocuments"
      [] v = "request_document" -> "RequestDocument"
      [] v = "document" -> "Document"

Message(variant, body) == [variant |-> variant, body |-> body]

\* Message::default(): OneOfmsg::None
DefaultMessage == Message("None", DefaultBody)

\* ---- quick_protobuf::Writer and sizeofs ----

RECURSIVE write_varint(_)
write_varint(n) ==
    IF n < 128 THEN <<n>> ELSE <<(n % 128) + 128>> \o write_varint(n \div 128)

RECURSIVE sizeof_varint(_)
sizeof_varint(n) == IF n < 128 THEN 1 ELSE 1 + sizeof_varint(n \div 128)

sizeof_len(len) == sizeof_varint(len) + len

\* write_with_tag(tag, |w| w.write_string(s)) and the same for write_bytes
write_len_field(tag, s) == write_varint(tag) \o write_varint(Len(s)) \o s

\* the "if self.x == "" { 0 } else { 1 + sizeof_len(len) }" term of get_size
len_field_size(s) == IF s = <<>> THEN 0 ELSE 1 + sizeof_len(Len(s))

\* the "if self.x != "" { w.write_with_tag(tag, ...) }" line of write_message
len_field_if_set(tag, s) == IF s = <<>> THEN <<>> ELSE write_len_field(tag, s)

SyncErrorReason_get_size(m) ==
    (IF m.reason = "UNKNOWN" THEN 0 ELSE 1 + sizeof_varint(ReasonAsI32(m.reason)))
    + len_field_size(m.details)

SyncErrorReason_write_message(m) ==
    (IF m.reason # "UNKNOWN"
        THEN write_varint(8) \o write_varint(ReasonAsI32(m.reason)) ELSE <<>>)
    \o len_field_if_set(18, m.details)

DocumentSyncMessage_get_size(m) == len_field_size(m.id) + len_field_size(m.payload)

DocumentSyncMessage_write_message(m) ==
    len_field_if_set(10, m.id) \o len_field_if_set(18, m.payload)

DocumentSyncError_get_size(m) ==
    len_field_size(m.id)
    + (IF m.reason = <<>> THEN 0
       ELSE 1 + sizeof_len(SyncErrorReason_get_size(m.reason[1])))

\* variant: a reason that is Some but all-default is left out of the stream
DocumentSyncError_write_message_DefaultReasonOmitted(m) ==
    len_field_if_set(10, m.id)
    \o (IF m.reason = <<>> \/ m.reason[1] = DefaultSyncErrorReason THEN <<>>
        ELSE write_varint(18)
             \o write_varint(SyncErrorReason_get_size(m.reason[1]))
             \o SyncErrorReason_write_message(m.reason[1]))

DocumentSyncError_write_message(m) ==
    len_field_if_set(10, m.id)
    \o (IF m.reason = <<>> THEN <<>>
        ELSE write_varint(18)
             \o write_varint(SyncErrorReason_get_size(m.reason[1]))
             \o SyncErrorReason_write_message(m.reason[1]))

RECURSIVE AvailableDocuments_get_size_of(_)
AvailableDocuments_get_size_of(ids) ==
    IF ids = <<>> THEN 0
    ELSE 1 + sizeof_len(Len(Head(ids))) + AvailableDocuments_get_size_of(Tail(ids))

AvailableDocuments_get_size(m) == AvailableDocuments_get_size_of(m.ids)

RECURSIVE AvailableDocuments_write_ids(_)
AvailableDocuments_write_ids(ids) ==
    IF ids = <<>> THEN <<>>
    ELSE write_len_field(10, Head(ids)) \o AvailableDocuments_write_ids(Tail(ids))

AvailableDocuments_write_message(m) == AvailableDocuments_write_ids(m.ids)

RequestDocument_get_size(m) == len_field_size(m.id)

RequestDocument_write_message(m) == len_field_if_set(10, m.id)

Document_get_size(m) == len_field_size(m.id) + len_field_size(m.payload)

Document_write_message(m) ==
    len_field_if_set(10, m.id) \o len_field_if_set(18, m.payload)

\* m.get_size() for the body of a variant
get_size(type, m) ==
    CASE type = "DocumentSyncMessage" -> DocumentSyncMessage_get_size(m)
      [] type = "DocumentSyncError" -> DocumentSyncError_get_size(m)
      [] type = "AvailableDocuments" -> AvailableDocuments_get_size(m)
      [] type = "RequestAvailableDocuments" -> 0
      [] type = "RequestDocument" -> RequestDocument_get_size(m)
      [] type = "Document" -> Document_get_size(m)

\* m.write_message(w) for the body of a variant
write_body(type, m) ==
    CASE type = "DocumentSyncMessage" -> DocumentSyncMessage_write_message(m)
      [] type = "DocumentSyncError" -> DocumentSyncError_write_message(m)
      [] type = "AvailableDocuments" -> AvailableDocuments_write_message(m)
      [] type = "RequestAvailableDocuments" -> <<>>
      [] type = "RequestDocument" -> RequestDocument_write_message(m)
      [] type = "Document" -> Document_write_message(m)

Message_get_size(m) ==
    IF m.variant = "None" THEN 0
    ELSE 1 + sizeof_len(get_size(VariantType(m.variant), m.body))

\* w.write_with_tag(tag, |w| w.write_message(m)): the tag, the length that
\* get_size computes, then what write_message writes
Message_write_message(m) ==
    IF m.variant = "None" THEN <<>>
    ELSE write_varint(VariantTag(m.variant))
         \o write_varint(get_size(VariantType(m.variant), m.body))
         \o write_body(VariantType(m.variant), m.body)

\* ---- quick_protobuf::BytesReader.  A reader is a position (bytes consumed)
\* and an end over the buffer b; a read returns ok, its value and the new
\* position.  read_u8 is bounded by the buffer, not by the reader's end. ----

Err == [ok |-> FALSE, val |-> <<>>, pos |-> 0]

Ok(v, p) == [ok |-> TRUE, val |-> v, pos |-> p]

\* read_varint32, as far as four bytes (values below 2^28); the streams
\* given here hold no longer tag or length
RECURSIVE read_varint_from(_, _, _)
read_varint_from(b, pos, k) ==
    IF pos >= Len(b) \/ k >= 4 THEN Err
    ELSE IF b[pos + 1] < 128 THEN Ok(b[pos + 1], pos + 1)
    ELSE LET rest == read_varint_from(b, pos + 1, k + 1) IN
         IF rest.ok THEN Ok((b[pos + 1] - 128) + 128 * rest.val, rest.pos) ELSE Err

read_varint32(b, pos) == read_varint_from(b, pos, 0)

\* read_varint64 with its value dropped: up to ten bytes
RECURSIVE skip_varint64(_, _, _)
skip_varint64(b, pos, k) ==
    IF pos >= Len(b) \/ k >= 10 THEN Err
    ELSE IF b[pos + 1] < 128 THEN Ok(<<>>, pos + 1)
    ELSE skip_varint64(b, pos + 1, k + 1)

\* read_bytes: read_len_varint over bytes.get(start..end)
read_bytes(b, pos) ==
    LET len == read_varint32(b, pos) IN
    IF ~len.ok THEN Err
    ELSE IF len.pos + len.val > Len(b) THEN Err
    ELSE Ok(SubSeq(b, len.pos + 1, len.pos + len.val), len.pos + len.val)

\* core::str::from_utf8, for the one-byte code points the strings here use
from_utf8_ok(s) == \A i \in 1..Len(s) : s[i] < 128

read_string(b, pos) ==
    LET r == read_bytes(b, pos) IN
    IF r.ok /\ from_utf8_ok(r.val) THEN r ELSE Err

\* read_enum: read_int32, then From<i32>
read_enum(b, pos) ==
    LET r == read_varint32(b, pos) IN
    IF r.ok THEN Ok(ReasonFromI32(r.val), r.pos) ELSE Err

\* read_unknown(bytes, tag): skip a field by the wire type in its tag
read_unknown(b, pos, end, tag) ==
    LET wire_type == tag % 8 IN
    IF wire_type = 0 THEN skip_varint64(b, pos, 0)
    ELSE IF wire_type \in {1, 2, 5} THEN
         LET offset == CASE wire_type = 1 -> Ok(8, pos)
                         [] wire_type = 5 -> Ok(4, pos)
                         [] wire_type = 2 -> read_varint32(b, pos) IN
         IF ~offset.ok \/ end - offset.pos < offset.val THEN Err
         ELSE Ok(<<>>, offset.pos + offset.val)
    ELSE Err    \* Deprecated("group") for 3 and 4, UnknownWireType for 6 and 7

DefaultOf(type) ==
    CASE type = "SyncErrorReason" -> DefaultSyncErrorReason
      [] type = "Message" -> DefaultMessage
      [] OTHER -> DefaultBody

VariantTags == {VariantTag(Variants[i]) : i \in 1..Len(Variants)}

\* variant in which the decoder takes tag 42 for document and tag 50 for
\* request_document
VariantOfTag_Swapped(tag) ==
    CASE tag = 42 -> "document"
      [] tag = 50 -> "request_document"
      [] OTHER -> Variants[(tag - 2) \div 8]

VariantOfTag(tag) == Variants[(tag - 2) \div 8]

\* variant in which a variant already read is kept
AssignVariant_FirstKept(msg, variant, body) ==
    IF msg.variant # "None" THEN msg ELSE Message(variant, body)

\* `msg.msg = OneOfmsg::variant(body)` (lines 292-297): the field is
\* overwritten, whatever it held
AssignVariant(msg, variant, body) == Message(variant, body)

RECURSIVE from_reader(_, _, _, _, _)
RECURSIVE read_message(_, _, _)
RECURSIVE read_field(_, _, _, _, _, _)

\* r.read_message::<M>(bytes): read_len_varint over M::from_reader; the
\* reader continues at the end of the length-delimited region.
\* RequestAvailableDocuments::from_reader is r.read_to_end().
read_message(type, b, pos) ==
    LET len == read_varint32(b, pos) IN
    IF ~len.ok THEN Err
    ELSE IF type = "RequestAvailableDocuments" THEN Ok(DefaultBody, len.pos + len.val)
    ELSE LET m == from_reader(type, b, len.pos, len.pos + len.val, DefaultOf(type)) IN
         IF m.ok THEN Ok(m.val, len.pos + len.val) ELSE Err

\* one arm of the "match r.next_tag(bytes)" of type's from_reader: the
\* message with the field read into it, and the new position
read_field(type, b, pos, end, tag, msg) ==
    CASE type \in {"DocumentSyncMessage", "DocumentSyncError", "RequestDocument", "Document"}
            /\ tag = 10 ->
            LET r == read_string(b, pos) IN
            IF r.ok THEN Ok([msg EXCEPT !.id = r.val], r.pos) ELSE Err
      [] type \in {"DocumentSyncMessage", "Document"} /\ tag = 18 ->
            LET r == read_bytes(b, pos) IN
            IF r.ok THEN Ok([msg EXCEPT !.payload = r.val], r.pos) ELSE Err
      [] type = "DocumentSyncError" /\ tag = 18 ->
            LET r == read_message("SyncErrorReason", b, pos) IN
            IF r.ok THEN Ok([msg EXCEPT !.reason = <<r.val>>], r.pos) ELSE Err
      [] type = "SyncErrorReason" /\ tag = 8 ->
            LET r == read_enum(b, pos) IN
            IF r.ok THEN Ok([msg EXCEPT !.reason = r.val], r.pos) ELSE Err
      [] type = "SyncErrorReason" /\ tag = 18 ->
            LET r == read_string(b, pos) IN
            IF r.ok THEN Ok([msg EXCEPT !.details = r.val], r.pos) ELSE Err
      [] type = "AvailableDocuments" /\ tag = 10 ->
            LET r == read_string(b, pos) IN
            IF r.ok THEN Ok([msg EXCEPT !.ids = Append(@, r.val)], r.pos) ELSE Err
      [] type = "Message" /\ tag \in VariantTags ->
            LET r == read_message(VariantType(VariantOfTag(tag)), b, pos) IN
            IF r.ok THEN Ok(AssignVariant(msg, VariantOfTag(tag), r.val), r.pos) ELSE Err
      [] OTHER ->
            LET r == read_unknown(b, pos, end, tag) IN
            IF r.ok THEN Ok(msg, r.pos) ELSE Err

\* M::from_reader: "while !r.is_eof() { match r.next_tag(bytes) { ... } }"
from_reader(type, b, pos, end, msg) ==
    IF pos = end THEN Ok(msg, pos)
    ELSE LET tag == read_varint32(b, pos) IN
         IF ~tag.ok THEN Err
         ELSE LET f == read_field(type, b, tag.pos, end, tag.val, msg) IN
              IF f.ok THEN from_reader(type, b, f.pos, end, f.val) ELSE Err

\* Message::from_reader over BytesReader::from_bytes(bytes)
Message_from_reader(b) == from_reader("Message", b, 0, Len(b), DefaultMessage)

\* ---- the messages and streams given to the codec ----

Strs == {<<>>, <<97>>}

LongBlob == [i \in 1..LongLen |-> 7]

Blobs == {<<>>, <<0>>, <<10, 255>>, LongBlob}

Reasons ==
    {<<>>} \cup {<<SyncErrorReason(ReasonNames[i], d)>> : i \in 1..Len(ReasonNames), d \in Strs}

IdLists == UNION {[1..n -> Strs] : n \in 0..MaxIds}

Messages ==
    {DefaultMessage}
    \cup {Message("sync_message", Body(i, p, <<>>, <<>>)) : i \in Strs, p \in Blobs}
    \cup {Message("sync_error", Body(i, <<>>, r, <<>>)) : i \in Strs, r \in Reasons}
    \cup {Message("available_documents", Body(<<>>, <<>>, <<>>, l)) : l \in IdLists}
    \cup {Message("request_available_documents", DefaultBody)}
    \cup {Message("request_document", Body(i, <<>>, <<>>, <<>>)) : i \in Strs}
    \cup {Message("document", Body(i, p, <<>>, <<>>)) : i \in Strs, p \in Blobs}

\* a field no message type declares (number 15), in each wire type: its tag
\* and its value as a protobuf encoder writes them
UnknownField(wire, bytes) == [wire |-> wire, bytes |-> bytes]

UnknownFields ==
    { UnknownField("varint", <<120, 1>>),
      UnknownField("varint", <<120, 200, 1>>),
      UnknownField("fixed64", <<121, 1, 2, 3, 4, 5, 6, 7, 8>>),
      UnknownField("length_delimited", <<122, 0>>),
      UnknownField("length_delimited", <<122, 3, 10, 1, 97>>),
      UnknownField("group", <<123, 124>>),
      UnknownField("fixed32", <<125, 1, 2, 3, 4>>) }

NoInjection == [place |-> "-", field |-> UnknownField("-", <<>>)]

\* where in the stream of m a newer peer can put an extra field: in the
\* envelope, in the variant's body, in the reason sub-message of an error
PlacesOf(m) ==
    {"envelope_before", "envelope_after"}
    \cup (IF m.variant # "None" THEN {"body_before", "body_after"} ELSE {})
    \cup (IF m.variant = "sync_error" /\ m.body.reason # <<>>
             THEN {"reason_before", "reason_after"} ELSE {})

Injections(m) == {[place |-> pl, field |-> f] : pl \in PlacesOf(m), f \in UnknownFields}

\* bytes with x put before or after them
Extended(bytes, x, before) == IF before THEN x \o bytes ELSE bytes \o x

\* the stream of m as a newer peer writes it: what write_message writes for
\* m, with the extra field at inj.place and the enclosing lengths counting it
NewerPeerStream(m, inj) ==
    LET x == inj.field.bytes
        before == inj.place \in {"envelope_before", "body_before", "reason_before"}
        type == VariantType(m.variant)
        reason == Extended(SyncErrorReason_write_message(m.body.reason[1]), x, before)
        body ==
            IF inj.place \in {"reason_before", "reason_after"}
            THEN len_field_if_set(10, m.body.id) \o write_len_field(18, reason)
            ELSE Extended(write_body(type, m.body), x, before)
    IN  IF inj.place \in {"envelope_before", "envelope_after"}
        THEN Extended(Message_write_message(m), x, before)
        ELSE write_len_field(VariantTag(m.variant), body)

\* the level that gets the extra field holds a recognised field of its own
HasRecognizedField(m, inj) ==
    CASE inj.place \in {"envelope_before", "envelope_after"} -> m.variant # "None"
      [] inj.place \in {"body_before", "body_after"} ->
            write_body(VariantType(m.variant), m.body) # <<>>
      [] inj.place \in {"reason_before", "reason_after"} ->
            SyncErrorReason_write_message(m.body.reason[1]) # <<>>
      [] OTHER -> FALSE

NotDecoded == Err

InitCodec ==
    /\ c_pc = "idle"
    /\ c_msg = DefaultMessage
    /\ c_inj = NoInjection
    /\ c_first = DefaultMessage
    /\ c_bytes = <<>>
    /\ c_ext = <<>>
    /\ c_out = NotDecoded
    /\ c_ext_out = NotDecoded

\* a caller has built a Message; a newer peer would add one field to it
InitCodecInputs ==
    /\ c_pc = "built"
    /\ c_msg \in Messages
    /\ c_inj \in Injections(c_msg)
    /\ c_first = DefaultMessage
    /\ c_bytes = <<>>
    /\ c_ext = <<>>
    /\ c_out = NotDecoded
    /\ c_ext_out = NotDecoded

\* encode: Message::write_message into a fresh Writer
Encode ==
    /\ c_pc = "built"
    /\ c_pc' = "encoded"
    /\ c_bytes' = Message_write_message(c_msg)
    /\ c_ext' = NewerPeerStream(c_msg, c_inj)
    /\ UNCHANGED <<c_msg, c_inj, c_first, c_out, c_ext_out, nonCodecVars>>

\* a sender has written another Message to the stream before c_msg: one of
\* each variant, with fields set
EarlierMessages ==
    { Message("sync_message", Body(<<98>>, <<1>>, <<>>, <<>>)),
      Message("sync_error",
              Body(<<98>>, <<>>, <<SyncErrorReason("INTERNAL_ERROR", <<98>>)>>, <<>>)),
      Message("available_documents", Body(<<>>, <<>>, <<>>, <<<<98>>>>)),
      Message("request_available_documents", DefaultBody),
      Message("request_document", Body(<<98>>, <<>>, <<>>, <<>>)),
      Message("document", Body(<<98>>, <<1>>, <<>>, <<>>)) }

InitCodecPairs ==
    /\ c_pc = "built"
    /\ c_msg \in Messages
    /\ c_inj = NoInjection
    /\ c_first \in EarlierMessages
    /\ c_bytes = <<>>
    /\ c_ext = <<>>
    /\ c_out = NotDecoded
    /\ c_ext_out = NotDecoded

\* encode both: Message::write_message of c_first, then of c_msg, into one
\* Writer
EncodeAfterFirst ==
    /\ c_pc = "built"
    /\ c_pc' = "encoded"
    /\ c_bytes' = Message_write_message(c_msg)
    /\ c_ext' = Message_write_message(c_first) \o Message_write_message(c_msg)
    /\ UNCHANGED <<c_msg, c_inj, c_first, c_out, c_ext_out, nonCodecVars>>

\* decode: Message::from_reader over each of the two streams
Decode ==
    /\ c_pc = "encoded"
    /\ c_pc' = "decoded"
    /\ c_out' = Message_from_reader(c_bytes)
    /\ c_ext_out' = Message_from_reader(c_ext)
    /\ UNCHANGED <<c_msg, c_inj, c_first, c_bytes, c_ext, nonCodecVars>>

-----------------------------------------------------------------------------
(* Specifications *)

Init == InitActor /\ InitOutlet /\ InitSync /\ InitCodec /\ InitConsole /\ InitDatabase

Next ==
    \/ EventBranch
    \/ CommandBranch
    \/ CommandChannelClosed
    \/ ProducerStart
    \/ InletSend
    \/ DropSender

Spec == Init /\ [][Next]_vars

\* select! without `biased;` polls its branches in a random order on every
\* pass of the loop (lines 62-63), so a branch that stays ready is taken;
\* a send().await completes once the channel has room
SpecFair ==
    /\ Spec
    /\ WF_vars(EventBranch)
    /\ WF_vars(CommandBranch)
    /\ WF_vars(InletSend)

\* the actor with a silent inlet: engine events only
EventsNext == EventBranch

SpecEvents == Init /\ [][EventsNext]_vars

\* a relay connection that is lost and made again: connection and identify
\* events only, for both peers, with the commands of Spec
ReconnectMaxEvents == 4

ReconnectEvents ==
    {Ev(k, p, "-") : k \in {"ConnectionClosed", "ConnectionEstablished",
                            "IdentifySent", "IdentifyReceived"}, p \in Peers}

ReconnectEventBranch == EventBranchOf(ReconnectMaxEvents, ReconnectEvents)

ReconnectNext ==
    \/ ReconnectEventBranch
    \/ ProducerStart
    \/ InletSend
    \/ CommandBranch

SpecReconnect == Init /\ [][ReconnectNext]_vars

\* the outlet under a stream of engine events, with consuming and stalled
\* subscribers
FanoutEvents == {Ev("NewListenAddr", "-", "-")}

FanoutEventBranch == EventBranchOf(FanoutMaxEvents, FanoutEvents)

FanoutNext ==
    \/ FanoutEventBranch
    \/ \E r \in Subscribers : SubscriberRecv(r)
    \/ \E r \in Subscribers : SubscriberStall(r)

SpecFanout == Init /\ [][FanoutNext]_vars

\* the inlet under one producer that sends more commands than the channel
\* holds, with a quiet engine
InletCommands == {Cmd("ListConnections", "-")}

InletProducerStart == ProducerStartOf(InletMaxSends, InletCommands)

InletNext ==
    \/ InletProducerStart
    \/ InletSend
    \/ CommandBranch
    \/ CommandChannelClosed
    \/ DropSender

SpecInlet == Init /\ [][InletNext]_vars

\* the provider-role commands, in any order and for two keys, with a quiet
\* engine
ProviderKeys == {"db", "files"}

ProviderCommands ==
    {Cmd(k, key) : k \in {"BeginProviderRole", "StopProviderRole"}, key \in ProviderKeys}

ProviderProducerStart == ProducerStartOf(ProviderMaxCommands, ProviderCommands)

ProviderNext ==
    \/ ProviderProducerStart
    \/ InletSend
    \/ CommandBranch
    \/ CommandChannelClosed
    \/ DropSender

SpecProvider == Init /\ [][ProviderNext]_vars

\* the operator console feeding the actor, with a quiet engine
ConsoleNext ==
    \/ ConsoleLine
    \/ ConsoleCtrlC
    \/ InletSend
    \/ CommandBranch
    \/ CommandChannelClosed

SpecConsole == Init /\ [][ConsoleNext]_vars

\* the DatabaseManager's loop beside an actor that publishes events and may
\* panic on one, which closes the outlet
DbEvents == {Ev("NewListenAddr", "-", "-"), Ev("ReservationReqAccepted", "-", "none")}

DbActorEventBranch == EventBranchOf(DbMaxEvents, DbEvents)

DatabaseNext ==
    \/ DbActorEventBranch
    \/ DbEventBranch
    \/ DbCommandBranch
    \/ DbCommandChannelClosed
    \/ DbSend
    \/ DbDropSender

SpecDatabase == Init /\ [][DatabaseNext]_vars

\* the sync protocol: the swarm establishing connections and driving the
\* Handlers and the Coordinator
SyncNext ==
    \/ \E c \in Conns : HandleEstablishedConnection(c)
    \/ \E c \in Conns : HandlerOnBehaviourEvent(c)
    \/ \E c \in Conns : HandlerPoll(c)
    \/ \E c \in Conns : HandlerOnConnectionEvent(c)
    \/ \E c \in Conns : HandlerOnUpgradeError(c)
    \/ \E p \in SyncPeers, d \in Docs : StartSync(p, d)
    \/ BehaviourPoll

SpecSync == Init /\ [][SyncNext]_vars

\* the Coordinator alone: the swarm establishing and closing connections and
\* handing it Handler events, the application issuing commands and polling
CoordinatorNext ==
    \/ \E c \in Conns : HandleEstablishedConnection(c)
    \/ \E c \in Conns : OnSwarmEventConnectionClosed(c)
    \/ \E c \in Conns : OnConnectionHandlerEvent(c)
    \/ \E p \in SyncPeers, d \in Docs : StartSync(p, d)
    \/ IssueCommand
    \/ BehaviourPoll

SpecCoordinator == Init /\ [][CoordinatorNext]_vars

\* the codec: every message of Messages encoded and decoded again, alone and
\* with each unrecognised field at each place
CodecInit == InitActor /\ InitOutlet /\ InitSync /\ InitCodecInputs /\ InitConsole /\ InitDatabase

CodecNext ==
    \/ Encode
    \/ Decode

SpecCodec == CodecInit /\ [][CodecNext]_vars

\* the codec on streams that hold two variant fields
EnvelopeInit == InitActor /\ InitOutlet /\ InitSync /\ InitCodecPairs /\ InitConsole /\ InitDatabase

EnvelopeNext ==
    \/ EncodeAfterFirst
    \/ Decode

SpecEnvelope == EnvelopeInit /\ [][EnvelopeNext]_vars

-----------------------------------------------------------------------------
(* Claims about the orchestration actor's bootstrap sequence *)

\* C1: between two steps of the actor, listening on the circuit address has
\* been attempted if and only if both bootstrap booleans are true, whatever
\* the order in which the identify events arrived.
C1_BootstrapOrdering ==
    (sent_identify /\ received_identify) <=> (listen_log # <<>>)

\* C2: every circuit listen was issued with both bootstrap booleans true at
\* the moment of the listen_on call.
C2_ListenOnlyWhenBothTrue ==
    \A i \in 1..Len(listen_log) : listen_log[i].sent /\ listen_log[i].received

\* a circuit listen has been issued
C2_Witness == listen_log # <<>>

-----------------------------------------------------------------------------
(* Claims about the channels of the actor *)

\* C8: a subscriber that was never more than the channel capacity behind has
\* received every event up to its position, without loss or gap, whatever the
\* other subscribers do; and the actor's handle-and-publish step is enabled
\* whenever the engine has an event, whatever the subscribers' positions.
C8_FanoutIsolation ==
    /\ \A r \in Subscribers :
          ~rx_over[r] => (rx_lost[r] = 0 /\ rx_gapfree[r] /\ rx_got[r] = rx_next[r])
    /\ (actor = "running" /\ polled_n < FanoutMaxEvents) => ENABLED FanoutEventBranch

\* one subscriber has stalled and fallen out of the ring while another one
\* has received every event published, more than a ring's worth of them
C8_Witness ==
    \E r, q \in Subscribers :
        /\ rx_stalled[r] /\ rx_over[r]
        /\ ~rx_stalled[q] /\ rx_lost[q] = 0
        /\ rx_got[q] = bc_tail /\ bc_tail > BroadcastCapacity

\* the commands whose send() has started, in send order: those handled, those
\* queued, and the one a producer is still awaiting
InFlight ==
    handled_cmds \o command_rx \o (IF producer = NoCmd THEN <<>> ELSE <<producer>>)

\* C9: the inlet never holds more than 32 commands; a send into a full inlet
\* cannot complete and completes once there is room; and every command sent
\* is handled, queued or still awaited, each exactly once (none dropped or
\* overwritten).
C9_InletBounded ==
    /\ Len(command_rx) <= ChannelCapacity
    /\ Len(InFlight) = sent_count
    /\ \A i \in 1..Len(InFlight) : InFlight[i].id = i
    /\ (Len(command_rx) = ChannelCapacity) => ~ENABLED InletSend
    /\ (producer # NoCmd /\ actor = "running" /\ Len(command_rx) < ChannelCapacity)
          => ENABLED InletSend

\* the inlet is full and a producer is waiting inside send()
C9_Witness ==
    Len(command_rx) = ChannelCapacity /\ producer # NoCmd

\* C10: the actor leaves its loop only by the normal break, with every sender
\* dropped and the inlet drained; it never leaves it in a panic or while a
\* sender is alive.
C10_Cancellation ==
    actor # "running" => (actor = "exited" /\ senders = 0 /\ command_rx = <<>>)

-----------------------------------------------------------------------------
(* Claims about the sync protocol *)

\* C3: every command a Handler has taken out of its queue has been written
\* to the peer's stream exactly once; none is discarded without being sent.
C3_CommandDurability ==
    \A c \in Conns : \A i \in 1..Len(h_taken[c]) :
        Cardinality({j \in 1..Len(h_wire[c]) : h_wire[c][j].id = h_taken[c][i].id}) = 1

\* C4: a Handler takes commands in submission order: the commands taken are
\* in increasing submission number, and none is taken while one submitted
\* earlier is still queued.
C4_SubmissionOrder ==
    \A c \in DOMAIN handlers : \A i \in 1..Len(h_taken[c]) :
        /\ \A j \in 1..(i - 1) : h_taken[c][j].id < h_taken[c][i].id
        /\ \A k \in 1..Len(handlers[c].pending_commands) :
              h_taken[c][i].id < handlers[c].pending_commands[k].id

\* number of sessions the Coordinator holds for (p, d)
SessionCount(p, d) ==
    Cardinality({i \in 1..Len(active_syncs) : active_syncs[i] = <<p, d>>})

\* C5: at most one session per (peer, doc); and once StartSync(p, d) has been
\* issued, once or twice, there is exactly one session for (p, d).
C5_SessionUniqueness ==
    \A p \in SyncPeers, d \in Docs :
        /\ SessionCount(p, d) <= 1
        /\ start_issued[<<p, d>>] >= 1 => SessionCount(p, d) = 1

-----------------------------------------------------------------------------
(* Claims about the wire codec *)

\* C6: round trip: for every Message (each of the six variants and the empty
\* one; empty strings and byte sequences, UNKNOWN reason, absent and
\* all-default reason sub-message, empty and repeated id lists) decoding what
\* the encoder wrote succeeds, consumes the whole stream and gives the
\* Message back.
C6_RoundTrip ==
    c_pc = "decoded" =>
        /\ c_out.ok
        /\ c_out.pos = Len(c_bytes)
        /\ c_out.val = c_msg

\* the round trip of an error whose reason is present and all-default
C6_Witness ==
    /\ c_pc = "decoded"
    /\ c_msg.variant = "sync_error"
    /\ c_msg.body.reason = <<DefaultSyncErrorReason>>
    /\ c_out.ok
    /\ c_out.val = c_msg

\* C7: forward compatibility: a stream with one recognised field and one
\* field with an unrecognised tag, in the envelope or in any nested message,
\* decodes successfully to the same Message as the stream without the
\* unrecognised field.
C7_ForwardCompatibility ==
    (c_pc = "decoded" /\ HasRecognizedField(c_msg, c_inj)) =>
        /\ c_ext_out.ok
        /\ c_out.ok
        /\ c_ext_out.val = c_out.val

-----------------------------------------------------------------------------
(* Claims about the orchestration actor's error handling *)

\* a step of the actor that takes a command from the inlet
CommandTaken == Len(handled_cmds') > Len(handled_cmds)

\* C11: no command failure terminates the actor: whenever the engine call of
\* a command taken from the inlet fails, the actor is still running after
\* handling the command.
C11_CommandFailureNonFatal ==
    [][(CommandTaken /\ last_cmd_res' = "Err") => actor' = "running"]_vars

\* C12: handling an event polled from the engine, whatever a remote peer made
\* it carry, leaves the actor running.
C12_RemoteInputNonFatal ==
    [][polled_n' > polled_n => actor' = "running"]_vars

\* C13: a failed listen call for the circuit address leaves the actor
\* running.
C13_ListenFailureNonFatal ==
    [][(Len(listen_log') > Len(listen_log)
            /\ listen_log'[Len(listen_log')].result = "Err")
        => actor' = "running"]_vars

\* C14: between two steps of the actor, the events republished on the outlet
\* are exactly the events polled so far, each once and in the order polled.
C14_RepublishedOnceInOrder ==
    published = [i \in 1..polled_n |-> i]

\* C15: provider idempotence, for every command the actor takes: stopping a
\* role that is not active changes nothing, gives no error and leaves the
\* actor running; after stopping a role (begun before or not) no provider
\* record for its key is left and the other keys' records are untouched;
\* beginning a role that is already active gives no error and keeps it active.
C15_ProviderIdempotence ==
    [][LET cmd == Head(command_rx) IN
       CommandTaken =>
         /\ (cmd.kind = "StopProviderRole" /\ cmd.arg \notin providing) =>
                (providing' = providing /\ last_cmd_res' = "Ok" /\ actor' = "running")
         /\ cmd.kind = "StopProviderRole" =>
                (cmd.arg \notin providing' /\ providing' = providing \ {cmd.arg})
         /\ (cmd.kind = "BeginProviderRole" /\ cmd.arg \in providing) =>
                (providing' = providing /\ last_cmd_res' = "Ok" /\ actor' = "running")
      ]_vars

\* Stop on an inactive role, then Begin, then Stop of the same key have been
\* handled, while another key's role is active
C15_Witness ==
    /\ actor = "running"
    /\ Len(handled_cmds) >= 3
    /\ \E k \in ProviderKeys :
          LET n == Len(handled_cmds) IN
          /\ handled_cmds[n - 2].kind = "StopProviderRole" /\ handled_cmds[n - 2].arg = k
          /\ handled_cmds[n - 1].kind = "BeginProviderRole" /\ handled_cmds[n - 1].arg = k
          /\ handled_cmds[n].kind = "StopProviderRole" /\ handled_cmds[n].arg = k
          /\ k \notin providing

-----------------------------------------------------------------------------
(* Claims about the Sync Coordinator.  The Coordinator keeps no session      *)
(* state beyond active_syncs; "a session for (p, d) exists" is read as       *)
(* "StartSync{p, d} has been issued".  Whatever the Coordinator emits        *)
(* or forwards leaves it through queued_events, so an operation that is to   *)
(* emit or forward must have put it there when it returns.                   *)

Range(q) == {q[i] : i \in 1..Len(q)}

\* the swarm holds a Handler for a connection to p
HasHandler(p) == \E c \in DOMAIN handlers : ConnPeer(c) = p

\* C16: when a connection closes, its Handler is gone and, for every document
\* with a session with that peer, the Coordinator has queued a
\* SyncError{INTERNAL_ERROR} event for (peer, document).
C16_ConnectionClosedErrorsSessions ==
    [][\A c \in closed' \ closed :
          /\ c \notin DOMAIN handlers'
          /\ \A d \in Docs :
                start_issued[<<ConnPeer(c), d>>] > 0 =>
                    GenerateEvent(SyncEvent("SyncError", ConnPeer(c), d, "INTERNAL_ERROR"))
                        \in Range(queued_events')
      ]_vars

\* C17: when the Coordinator is handed a SyncError{peer, doc, reason} event by
\* a Handler, it has queued that SyncError for its outward event stream.
C17_InboundErrorSurfaced ==
    [][(handler_events_n' > handler_events_n /\ last_handler_event'.kind = "SyncError")
          => GenerateEvent(last_handler_event') \in Range(queued_events')
      ]_vars

\* C18: the first StartSync{p, d} creates a session and is forwarded to p's
\* Handler if there is one, else queued in pending_commands; and once a
\* connection is established no command for its peer stays in
\* pending_commands.
C18_StartSyncForwardedOrQueued ==
    [][/\ \A p \in SyncPeers, d \in Docs :
             (start_issued[<<p, d>>] = 0 /\ start_issued'[<<p, d>>] = 1) =>
                 /\ <<p, d>> \in Range(active_syncs')
                 /\ IF HasHandler(p)
                    THEN NotifyHandler(p, SyncCmd("StartSync", p, d)) \in Range(queued_events')
                    ELSE /\ <<p, d>> \in DOMAIN pending_commands'
                         /\ SyncCmd("StartSync", p, d) \in Range(pending_commands'[<<p, d>>])
       /\ \A c \in DOMAIN handlers' \ DOMAIN handlers :
             \A k \in DOMAIN pending_commands' :
                 k[1] = ConnPeer(c) => pending_commands'[k] = <<>>
      ]_vars

\* a step in which the application issues cmd
Issues(cmd) == issued_n' > issued_n /\ last_issued' = cmd

\* C19: SendChanges or RequestSync for a (peer, doc) without a session queues
\* a local SyncError (DOCUMENT_NOT_FOUND or INTERNAL_ERROR) and nothing for
\* the peer's Handler.
C19_NoSessionLocalError ==
    [][\A cmd \in {x \in Commands : x.kind \in {"SendChanges", "RequestSync"}} :
          (Issues(cmd) /\ start_issued[<<cmd.peer, cmd.doc>>] = 0) =>
              /\ \E r \in {"DOCUMENT_NOT_FOUND", "INTERNAL_ERROR"} :
                    GenerateEvent(SyncEvent("SyncError", cmd.peer, cmd.doc, r))
                        \in Range(queued_events')
              /\ NotifyHandler(cmd.peer, cmd) \notin Range(queued_events')
      ]_vars

\* C20: BroadcastChanges{doc} is forwarded to the Handler of exactly the
\* connected peers that have a session for doc.
C20_BroadcastFanout ==
    [][\A cmd \in {x \in Commands : x.kind = "BroadcastChanges"} :
          Issues(cmd) =>
              \A p \in SyncPeers :
                  (NotifyHandler(p, cmd) \in Range(queued_events'))
                      <=> (HasHandler(p) /\ start_issued[<<p, cmd.doc>>] > 0)
      ]_vars

-----------------------------------------------------------------------------
(* Claims about the actor loop's scheduling *)

\* C21: both branches of the loop are served: a command waiting in the inlet
\* is eventually handled, however many events the engine has ready, and an
\* event the engine has ready is eventually handled and republished, however
\* many commands arrive, unless the actor has left its loop normally.
C21_BothBranchesServed ==
    /\ \A n \in 1..MaxCommands :
          (\E i \in 1..Len(command_rx) : command_rx[i].id = n)
              ~> (\E i \in 1..Len(handled_cmds) : handled_cmds[i].id = n)
    /\ \A n \in 1..MaxEvents :
          (actor = "running" /\ polled_n = n - 1)
              ~> (actor = "exited" \/ \E i \in 1..Len(published) : published[i] = n)

-----------------------------------------------------------------------------
(* Claims about the Message envelope *)

\* the field numbers the protocol fixes for the variants
FieldNumber(v) ==
    CASE v = "sync_message" -> 1
      [] v = "sync_error" -> 2
      [] v = "available_documents" -> 3
      [] v = "request_available_documents" -> 4
      [] v = "request_document" -> 5
      [] v = "document" -> 6

\* the wire key of a length-delimited field
LengthDelimitedKey(n) == 8 * n + 2

\* C22: the stream of every Message with a variant starts with the
\* length-delimited key of the variant's fixed field number (10, 18, 26, 34,
\* 42, 50) and decodes back to that variant; and a stream holding one empty
\* length-delimited field decodes to a variant exactly when the field number
\* is that variant's.
C22_EnvelopeFieldNumbers ==
    (c_pc = "decoded" /\ c_msg.variant # "None") =>
        /\ c_bytes[1] = LengthDelimitedKey(FieldNumber(c_msg.variant))
        /\ c_out.ok
        /\ c_out.val.variant = c_msg.variant
        /\ \A n \in 1..15 :
              LET r == Message_from_reader(<<LengthDelimitedKey(n), 0>>) IN
              /\ r.ok
              /\ r.val.variant = c_msg.variant <=> n = FieldNumber(c_msg.variant)

C22_Witness ==
    /\ c_pc = "decoded"
    /\ c_msg.variant = "document"
    /\ c_bytes[1] = 50
    /\ c_out.ok
    /\ c_out.val.variant = "document"

\* C23: a stream with two variant fields decodes to the Message of the last
\* one alone: nothing of the earlier field is in the result.
C23_LastVariantWins ==
    (c_pc = "decoded" /\ c_first.variant # "None" /\ c_msg.variant # "None") =>
        /\ c_ext_out.ok
        /\ c_ext_out.val = c_msg

\* an earlier sync_error with id and reason set, then an empty sync_error
C23_Witness ==
    /\ c_pc = "decoded"
    /\ c_first.variant = "sync_error"
    /\ c_msg = Message("sync_error", DefaultBody)
    /\ c_ext_out.ok
    /\ c_ext_out.val = c_msg

\* C24: the empty variant is written as zero bytes, and a stream with no
\* variant field (empty, or holding only an unrecognised field) decodes
\* successfully to the empty variant.
C24_EmptyVariant ==
    (c_pc = "decoded" /\ c_msg.variant = "None") =>
        /\ c_bytes = <<>>
        /\ c_out.ok
        /\ c_out.val = DefaultMessage
        /\ c_ext_out.ok
        /\ c_ext_out.val = DefaultMessage

-----------------------------------------------------------------------------
(* Claims about the Connection Handler's failures *)

\* C25: the step in which a connection's stream negotiation fails leaves an
\* error event in that Handler's pending_events, for poll to hand to the
\* Coordinator.
C25_NegotiationFailureSurfaced ==
    [][\A c \in Conns :
          (c \notin upgrade_failed /\ c \in upgrade_failed') =>
              handlers'[c].pending_events # <<>>]_vars

-----------------------------------------------------------------------------
(* Claims about the operator console *)

\* C26: the step in which the console reads the line `dial_id <peer>` hands
\* DialPeerId(peer), and no Dial, to the actor's inlet.
C26_DialIdSendsDialPeerId ==
    [][(lines_read' = lines_read + 1 /\ Trim(last_line') = W.dial_id \o W.sp \o W.peer) =>
          /\ producer'.id = sent_count + 1
          /\ producer'.kind = "DialPeerId"
          /\ producer'.arg = "A"]_vars

-----------------------------------------------------------------------------
(* Claims about the actor's handling of single events *)

\* the step handles an event polled from the engine
EventHandled == polled_n' = polled_n + 1

BootstrapCalls(calls) ==
    {i \in 1..Len(calls) : calls[i].call = "kademlia.bootstrap"}

\* C27: the step that handles IdentifySent or IdentifyReceived for a peer
\* other than the relay leaves both bootstrap booleans unchanged.
C27_OnlyRelayIdentifySetsBooleans ==
    [][(/\ EventHandled
        /\ last_polled'.kind \in {"IdentifySent", "IdentifyReceived"}
        /\ last_polled'.peer # relay_peer_id)
       => UNCHANGED <<sent_identify, received_identify>>]_vars

\* C28: the step that handles an event starts one DHT bootstrap if the event
\* is ConnectionEstablished for the relay peer and none otherwise; if the
\* start fails, that one call is all the actor does with the engine, the
\* actor keeps running and the bootstrap booleans are unchanged.
C28_BootstrapOnRelayConnection ==
    [][EventHandled =>
          /\ Cardinality(BootstrapCalls(engine_calls')) =
                IF last_polled' = Ev("ConnectionEstablished", relay_peer_id, "-")
                THEN 1 ELSE 0
          /\ (\E i \in BootstrapCalls(engine_calls') : engine_calls'[i].result = "Err") =>
                /\ Len(engine_calls') = 1
                /\ actor' = "running"
                /\ UNCHANGED <<sent_identify, received_identify>>]_vars

\* the relay's connection was handled, the bootstrap failed to start and the
\* actor runs on
C28_Witness ==
    /\ last_polled = Ev("ConnectionEstablished", relay_peer_id, "-")
    /\ engine_calls = <<Call("kademlia.bootstrap", "Err")>>
    /\ actor = "running"
    /\ published # <<>>
    /\ published[Len(published)] = polled_n

\* C30: the step that handles a discovery-query-progress event makes no
\* engine call (no dial), leaves the bootstrap booleans unchanged and the
\* actor running, and republishes the event on the outlet.
C30_QueryProgressOnlyObserved ==
    [][(EventHandled /\ last_polled'.kind = "KadQueryProgressed") =>
          /\ engine_calls' = <<>>
          /\ UNCHANGED <<sent_identify, received_identify>>
          /\ actor' = "running"
          /\ published' = Append(published, polled_n')
          /\ last_published' = last_polled'
          /\ bc_tail' = bc_tail + 1
          /\ bc_buffer'[bc_tail % BroadcastCapacity] = [pos |-> bc_tail, val |-> polled_n']]_vars

\* closest peers were found and the event was republished, nothing else done
C30_Witness ==
    /\ last_polled = Ev("KadQueryProgressed", "-", "GetClosestPeersOk")
    /\ last_published = last_polled
    /\ engine_calls = <<>>
    /\ published # <<>>
    /\ published[Len(published)] = polled_n

-----------------------------------------------------------------------------
(* Claims about the Coordinator's sessions *)

\* C29: the step in which the Coordinator is handed an inbound sync message
\* for document D from peer P, a session (P, D) having been started, advances
\* that session: the Coordinator's state changes or DocumentSynced{P, D} is
\* queued for its event stream.
C29_SyncMessageAdvancesSession ==
    [][(/\ handler_events_n' > handler_events_n
        /\ last_handler_event'.kind = "SyncMessage"
        /\ start_issued[<<last_handler_event'.peer, last_handler_event'.doc>>] > 0)
       => \/ behaviourVars' # behaviourVars
          \/ GenerateEvent(SyncEvent("DocumentSynced", last_handler_event'.peer,
                                     last_handler_event'.doc, "-"))
                 \in Range(queued_events')]_vars

-----------------------------------------------------------------------------
(* Claims about the life of the bootstrap state *)

\* C31: over the whole life of the actor at most one circuit listen is
\* issued.
C31_CircuitListenAtMostOnce == Len(listen_log) <= 1

\* C32: no step of the actor, for an event or for a command, takes
\* sent_identify or received_identify from true back to false.
C32_BootstrapBooleansMonotonic ==
    [][/\ sent_identify => sent_identify'
       /\ received_identify => received_identify']_vars

\* the relay's ConnectionClosed was handled after both identify events and
\* the circuit listen, and both booleans are still true
C32_Witness ==
    /\ polled_n >= 3
    /\ last_polled = Ev("ConnectionClosed", relay_peer_id, "-")
    /\ listen_log # <<>>
    /\ sent_identify
    /\ received_identify

-----------------------------------------------------------------------------
(* Claims about the Handler's poll *)

\* C33: when a poll of a Handler that took a command returns Pending, both
\* queues of the Handler are empty.
C33_PendingLeavesNothingQueued ==
    [][\A c \in DOMAIN handlers :
          (/\ c \in DOMAIN handlers'
           /\ h_taken'[c] # h_taken[c]
           /\ PollReturns(handlers[c]) = "Pending")
          => /\ handlers'[c].pending_commands = <<>>
             /\ handlers'[c].pending_events = <<>>]_vars

-----------------------------------------------------------------------------
(* Claims about the order of the actor's commands *)

\* C34: the commands handled are the first ones enqueued, in that order and
\* each once; the inlet holds the next ones in order; and once the actor has
\* left its loop no enqueued command is left unhandled.
C34_CommandsInOrderBeforeExit ==
    /\ \A i \in 1..Len(handled_cmds) : handled_cmds[i].id = i
    /\ \A i \in 1..Len(command_rx) : command_rx[i].id = Len(handled_cmds) + i
    /\ actor # "running" => command_rx = <<>>

-----------------------------------------------------------------------------
(* Claims about the console's provider role *)

\* the provider-role commands for the db key the console has sent so far, in
\* the order sent
ProviderSent ==
    SelectSeq(InFlight, LAMBDA c : c.kind \in {"BeginProviderRole", "StopProviderRole"}
                                   /\ c.arg = "db")

\* the last provider-role command sent was BeginProviderRole
RoleBegun == ProviderSent # <<>> /\ ProviderSent[Len(ProviderSent)].kind = "BeginProviderRole"

\* C35: the step in which the console reads a line sends BeginProviderRole
\* only if the last provider-role command sent was not BeginProviderRole, and
\* StopProviderRole only if it was; a `promote db` after a BeginProviderRole
\* and a `demote db` with no BeginProviderRole before it send no command.
C35_ProviderRoleAlternates ==
    [][lines_read' = lines_read + 1 =>
          LET sent == producer' # producer
              line == Trim(last_line')
          IN /\ (line = W.promote \o W.sp \o W.db /\ RoleBegun) => ~sent
             /\ (line = W.demote \o W.sp \o W.db /\ ~RoleBegun) => ~sent
             /\ (sent /\ producer'.kind = "BeginProviderRole") => ~RoleBegun
             /\ (sent /\ producer'.kind = "StopProviderRole") => RoleBegun]_vars

\* three lines read, the last one `demote db`, and BeginProviderRole then
\* StopProviderRole are all that was sent
C35_Witness ==
    /\ lines_read = 3
    /\ last_line = W.demote \o W.sp \o W.db
    /\ sent_count = 2
    /\ Len(ProviderSent) = 2
    /\ ProviderSent[1].kind = "BeginProviderRole"
    /\ ProviderSent[2].kind = "StopProviderRole"

-----------------------------------------------------------------------------
(* Claims about the DatabaseManager *)

\* C36: the DatabaseManager's loop has ended only with its command inlet
\* closed (empty, every Sender dropped), and ends then; whatever its last
\* recv() on the event outlet returned, while it runs a queued command can be
\* handled and an event left in the outlet can be received.
C36_ExitsOnlyOnInletClosed ==
    /\ db_pc = "exited" => (db_command_rx = 0 /\ db_senders = 0)
    /\ (db_pc = "running" /\ db_command_rx = 0 /\ db_senders = 0)
          => ENABLED DbCommandChannelClosed
    /\ (db_pc = "running" /\ db_command_rx > 0) => ENABLED DbCommandBranch
    /\ (db_pc = "running" /\ rx_next[DbReceiver] < bc_tail) => ENABLED DbEventBranch

\* the loop has met a lag gap and received an event after it, the outlet has
\* since been closed by the actor's panic, and the loop still runs with a
\* command to handle
C36_Witness ==
    /\ db_pc = "running"
    /\ rx_lost[DbReceiver] > 0
    /\ rx_got[DbReceiver] > 0
    /\ db_last_recv = "Closed"
    /\ db_command_rx > 0

-----------------------------------------------------------------------------
(* Claims about established connections *)

\* C37: a connection that is not yet established can always be established
\* (the Coordinator never denies it), whatever its peer; the step gives it a
\* Handler with both queues empty and changes no other Handler and no field
\* of the Coordinator.
C37_EstablishedConnectionGetsFreshHandler ==
    [][\A c \in Conns :
          /\ (c \notin DOMAIN handlers /\ c \notin closed)
                => ENABLED HandleEstablishedConnection(c)
          /\ (c \notin DOMAIN handlers /\ c \in DOMAIN handlers') =>
                /\ handlers'[c] = [pending_commands |-> <<>>, pending_events |-> <<>>]
                /\ \A k \in DOMAIN handlers : handlers'[k] = handlers[k]
                /\ UNCHANGED behaviourVars]_vars

\* both connections are established, after the application started a sync,
\* and each has a Handler with empty queues
C37_Witness ==
    /\ DOMAIN handlers = Conns
    /\ \A c \in Conns : handlers[c] = [pending_commands |-> <<>>, pending_events |-> <<>>]
    /\ \E k \in DOMAIN start_issued : start_issued[k] > 0

====
